---- MODULE Spec2Model ----
(***************************************************************************)
(* A model of the Skype message filter (src/main.py): the content and      *)
(* timestamp normalizers, filter_messages, get_available_filename and the   *)
(* control flow of main.                                                    *)
(*                                                                          *)
(* Python strings are TLA+ strings; TLC evaluates Len, SubSeq, Head, Tail  *)
(* and \o on them, so every text operation below works on characters.      *)
(***************************************************************************)
EXTENDS Integers, Sequences, FiniteSets, TLC

VARIABLES
    pc,                 \* position of the running function
    py311,              \* TRUE when the interpreter is CPython >= 3.11
    disk,               \* names of the files that exist (os.path.exists)
    archive_file,       \* what open()/json.load find at json_file
    stdin,              \* the answers the user will type, in prompt order
    data,               \* main: data
    username,           \* main: username
    conversation_id,    \* main: conversation_id
    search_method,      \* main: search_method
    first_word,         \* main: first_word
    filtered_messages,  \* main: what filter_messages returned or raised
    filename,           \* get_available_filename: filename
    counter,            \* get_available_filename: counter
    new_filename,       \* get_available_filename: new_filename
    final_output_file,  \* save_to_word: what get_available_filename returned
    doc,                \* save_to_word: the blocks of the Document being built
    saved,              \* the documents doc.save wrote, as <<name, blocks>>
    log,                \* history: the steps main has executed, in order
    pieces,             \* history: the fragments the raw text was built from
    text,               \* clean_content: its argument
    cleaned             \* clean_content: its return value

vars == <<pc, py311, disk, archive_file, stdin, data, username, conversation_id,
          search_method, first_word, filtered_messages, filename, counter,
          new_filename, final_output_file, doc, saved, log, pieces, text, cleaned>>

(***************************************************************************)
(* Python values                                                            *)
(***************************************************************************)
\* Python's None. A value that may be None is held boxed: None or Str(s).
None == [tag |-> "None"]

Str(s) == [tag |-> "str", val |-> s]

\* dict.get(key, default) on a JSON object held as a record
Get(obj, key, default) == IF key \in DOMAIN obj THEN obj[key] ELSE default

\* bool(v) of a boxed str-or-None value
Truthy(v) == v # None /\ v.val # ""

(***************************************************************************)
(* Characters                                                               *)
(***************************************************************************)
Ch(s, i) == SubSeq(s, i, i)

CharsOf(s) == {Ch(s, i) : i \in 1..Len(s)}

Digits == CharsOf("0123456789")

\* \w of the re module on the characters that occur here
WordChars ==
    CharsOf("abcdefghijklmnopqrstuvwxyzABCDEFGHIJKLMNOPQRSTUVWXYZ_") \cup Digits

\* what str.strip() and str.split() treat as white space
Whitespace == {" ", "\t", "\n"}

\* s[i:] and s[:i] with 1-based i
From(s, i) == IF i > Len(s) THEN "" ELSE SubSeq(s, i, Len(s))

Upto(s, i) == IF i < 1 THEN "" ELSE SubSeq(s, 1, i)

\* s.startswith(p, i-1)
StartsAt(s, i, p) ==
    /\ i >= 1
    /\ i + Len(p) - 1 <= Len(s)
    /\ SubSeq(s, i, i + Len(p) - 1) = p

\* the regex assertion \b between positions i-1 and i of s
WordBoundary(s, i) ==
    LET before == i > 1 /\ i - 1 <= Len(s) /\ Ch(s, i - 1) \in WordChars
        after  == i >= 1 /\ i <= Len(s) /\ Ch(s, i) \in WordChars
    IN  before # after

\* the first position >= i of s holding a character of set cs, or 0
RECURSIVE FirstIn(_, _, _)
FirstIn(s, i, cs) ==
    IF i > Len(s) THEN 0
    ELSE IF Ch(s, i) \in cs THEN i
    ELSE FirstIn(s, i + 1, cs)

\* the last position of s holding character c, or 0
RECURSIVE LastIndex(_, _, _)
LastIndex(s, c, i) ==
    IF i < 1 THEN 0
    ELSE IF Ch(s, i) = c THEN i
    ELSE LastIndex(s, c, i - 1)

\* the first position >= i of s where p starts, or 0
RECURSIVE Find(_, _, _)
Find(s, i, p) ==
    IF i + Len(p) - 1 > Len(s) THEN 0
    ELSE IF StartsAt(s, i, p) THEN i
    ELSE Find(s, i + 1, p)

(***************************************************************************)
(* clean_content                                                            *)
(***************************************************************************)
\* The character references html.unescape decodes, as <<reference, text>>;
\* the legacy names are also decoded without their semicolon.
HtmlEntities ==
    << <<"&amp;", "&">>, <<"&lt;", "<">>, <<"&gt;", ">">>, <<"&quot;", "\"">>,
       <<"&apos;", "'">>, <<"&#39;", "'">>, <<"&#47;", "/">>,
       <<"&amp", "&">>, <<"&lt", "<">>, <<"&gt", ">">>, <<"&quot", "\"">> >>

\* the index of the first entry of HtmlEntities that starts at s[i], or 0
RECURSIVE EntityAt(_, _, _)
EntityAt(s, i, k) ==
    IF k > Len(HtmlEntities) THEN 0
    ELSE IF StartsAt(s, i, HtmlEntities[k][1]) THEN k
    ELSE EntityAt(s, i, k + 1)

\* html.unescape(s[i-1:]): one left-to-right pass, decoded text is not rescanned
RECURSIVE UnescapeFrom(_, _)
UnescapeFrom(s, i) ==
    IF i > Len(s) THEN ""
    ELSE LET k == IF Ch(s, i) = "&" THEN EntityAt(s, i, 1) ELSE 0
         IN  IF k > 0
             THEN HtmlEntities[k][2] \o UnescapeFrom(s, i + Len(HtmlEntities[k][1]))
             ELSE Ch(s, i) \o UnescapeFrom(s, i + 1)

html_unescape(s) == UnescapeFrom(s, 1)

\* Where a match of <e_m\b[^>]*>(.*?)</e_m> that starts at s[i] ends (the
\* position after it), or 0. [^>]* stops at the first '>' after the name; the
\* lazy .*? runs to the first </e_m> and may not cross a newline.
PairedEnd(s, i) ==
    IF ~(StartsAt(s, i, "<e_m") /\ WordBoundary(s, i + 4)) THEN 0
    ELSE LET gt == FirstIn(s, i + 4, {">"})
             cl == IF gt = 0 THEN 0 ELSE Find(s, gt + 1, "</e_m>")
             nl == IF gt = 0 THEN 0 ELSE FirstIn(s, gt + 1, {"\n"})
         IN  IF gt = 0 \/ cl = 0 \/ (nl # 0 /\ nl < cl) THEN 0 ELSE cl + 6

\* Where a match of <e_m\b[^>]*/> that starts at s[i] ends, or 0: the '/'
\* has to be the character right before the first '>' after the name.
SelfClosingEnd(s, i) ==
    IF ~(StartsAt(s, i, "<e_m") /\ WordBoundary(s, i + 4)) THEN 0
    ELSE LET gt == FirstIn(s, i + 4, {">"})
         IN  IF gt = 0 \/ gt - 1 < i + 4 \/ Ch(s, gt - 1) # "/" THEN 0 ELSE gt + 1

\* re.sub(r'<e_m\b[^>]*>(.*?)</e_m>', '', s[i-1:]): leftmost matches, in order
RECURSIVE SubPaired(_, _)
SubPaired(s, i) ==
    IF i > Len(s) THEN ""
    ELSE LET e == PairedEnd(s, i)
         IN  IF e > 0 THEN SubPaired(s, e) ELSE Ch(s, i) \o SubPaired(s, i + 1)

\* re.sub(r'<e_m\b[^>]*/>', '', s[i-1:])
RECURSIVE SubSelfClosing(_, _)
SubSelfClosing(s, i) ==
    IF i > Len(s) THEN ""
    ELSE LET e == SelfClosingEnd(s, i)
         IN  IF e > 0 THEN SubSelfClosing(s, e)
             ELSE Ch(s, i) \o SubSelfClosing(s, i + 1)

clean_content(s) == SubSelfClosing(SubPaired(html_unescape(s), 1), 1)

(***************************************************************************)
(* str.strip().split() and the review pattern                               *)
(***************************************************************************)
\* the first position >= i of s holding a character outside set cs, or 0
RECURSIVE FirstNotIn(_, _, _)
FirstNotIn(s, i, cs) ==
    IF i > Len(s) THEN 0
    ELSE IF Ch(s, i) \notin cs THEN i
    ELSE FirstNotIn(s, i + 1, cs)

\* s[i-1:].split(): the maximal runs of non-white-space characters
RECURSIVE SplitFrom(_, _)
SplitFrom(s, i) ==
    LET b == FirstNotIn(s, i, Whitespace)
    IN  IF b = 0 THEN <<>>
        ELSE LET w == FirstIn(s, b, Whitespace)
                 e == IF w = 0 THEN Len(s) + 1 ELSE w
             IN  <<SubSeq(s, b, e - 1)>> \o SplitFrom(s, e)

\* s.strip(): white space removed at both ends
RECURSIVE RStripSet(_, _)
RStripSet(s, cs) ==
    IF Len(s) > 0 /\ Ch(s, Len(s)) \in cs
    THEN RStripSet(SubSeq(s, 1, Len(s) - 1), cs)
    ELSE s

strip(s) ==
    LET b == FirstNotIn(s, 1, Whitespace)
    IN  IF b = 0 THEN "" ELSE RStripSet(From(s, b), Whitespace)

split(s) == SplitFrom(s, 1)

\* the position after the run of digits that starts at s[i] (i itself if none)
DigitsEnd(s, i) ==
    LET e == FirstNotIn(s, i, Digits)
    IN  IF e = 0 THEN Len(s) + 1 ELSE e

\* ReviewMatchAt without the \b that closes the pattern
ReviewMatchAtOpenEnd(s, i) ==
    /\ WordBoundary(s, i)
    /\ LET d1 == DigitsEnd(s, i)
           d2 == IF StartsAt(s, d1, ".") THEN DigitsEnd(s, d1 + 1) ELSE d1
       IN  /\ d1 > i
           /\ \/ (d2 > d1 + 1 /\ StartsAt(s, d2, "/10"))
              \/ StartsAt(s, d1, "/10")

\* whether \b\d+(\.\d+)?/10\b matches starting at s[i]: \d+ is greedy and
\* giving digits back never helps, as a digit matches neither '.' nor '/'.
ReviewMatchAt(s, i) ==
    /\ WordBoundary(s, i)
    /\ LET d1 == DigitsEnd(s, i)
           d2 == IF StartsAt(s, d1, ".") THEN DigitsEnd(s, d1 + 1) ELSE d1
           tail(j) == StartsAt(s, j, "/10") /\ WordBoundary(s, j + 3)
       IN  /\ d1 > i
           /\ \/ (d2 > d1 + 1 /\ tail(d2))
              \/ tail(d1)

\* re.search(r'\b\d+(\.\d+)?/10\b', s) scanning from s[i]
RECURSIVE ReviewSearchFrom(_, _)
ReviewSearchFrom(s, i) ==
    IF i > Len(s) THEN FALSE
    ELSE IF ReviewMatchAt(s, i) THEN TRUE
    ELSE ReviewSearchFrom(s, i + 1)

review_search(s) == ReviewSearchFrom(s, 1)

(***************************************************************************)
(* datetime                                                                 *)
(***************************************************************************)
DigitVal(c) == CHOOSE d \in 0..9 : Ch("0123456789", d + 1) = c

IsDigits(s) == Len(s) > 0 /\ \A i \in 1..Len(s) : Ch(s, i) \in Digits

\* int(s) of a string of digits
RECURSIVE ToInt(_)
ToInt(s) ==
    IF Len(s) = 0 THEN 0
    ELSE 10 * ToInt(SubSeq(s, 1, Len(s) - 1)) + DigitVal(Ch(s, Len(s)))

\* str(n) of n >= 0
RECURSIVE ToStr(_)
ToStr(n) ==
    IF n < 10 THEN Ch("0123456789", n + 1)
    ELSE ToStr(n \div 10) \o Ch("0123456789", (n % 10) + 1)

\* %02d
Pad2(n) == IF n < 10 THEN "0" \o ToStr(n) ELSE ToStr(n)

IsLeap(y) == (y % 4 = 0 /\ y % 100 # 0) \/ y % 400 = 0

DaysInMonth(y, m) ==
    IF m = 2 THEN (IF IsLeap(y) THEN 29 ELSE 28)
    ELSE IF m \in {4, 6, 9, 11} THEN 30 ELSE 31

RECURSIVE DaysBeforeMonth(_, _)
DaysBeforeMonth(y, m) ==
    IF m = 1 THEN 0 ELSE DaysBeforeMonth(y, m - 1) + DaysInMonth(y, m - 1)

\* date.toordinal(): 0001-01-01 is day 1
Ordinal(y, m, d) ==
    LET p == y - 1
    IN  p * 365 + (p \div 4) - (p \div 100) + (p \div 400) + DaysBeforeMonth(y, m) + d

DateTime(y, mo, d, h, mi, sec, us, aware, off) ==
    [tag |-> "datetime", year |-> y, month |-> mo, day |-> d, hour |-> h,
     minute |-> mi, second |-> sec, microsecond |-> us,
     aware |-> aware, utcoffset |-> off]

\* datetime.min
datetime_min == DateTime(1, 1, 1, 0, 0, 0, 0, FALSE, 0)

\* "HH[:MM[:SS[.f...]]]" as <<ok, hour, minute, second, microsecond>>. Before
\* 3.11 a fraction has 3 or 6 digits; from 3.11 any number of digits, of which
\* the first six count.
ParseClock(t) ==
    LET bad == <<FALSE, 0, 0, 0, 0>>
        n   == Len(t)
        two(i) == IsDigits(SubSeq(t, i, i + 1))
        val(i) == ToInt(SubSeq(t, i, i + 1))
        frac == From(t, 10)
        us  == IF n <= 9 THEN 0
               ELSE IF Len(frac) >= 6 THEN ToInt(SubSeq(frac, 1, 6))
               ELSE IF Len(frac) = 5 THEN ToInt(frac) * 10
               ELSE IF Len(frac) = 4 THEN ToInt(frac) * 100
               ELSE IF Len(frac) = 3 THEN ToInt(frac) * 1000
               ELSE IF Len(frac) = 2 THEN ToInt(frac) * 10000
               ELSE ToInt(frac) * 100000
    IN  IF n \notin {2, 5, 8} /\ n < 10 THEN bad
        ELSE IF ~two(1) THEN bad
        ELSE IF n >= 5 /\ ~(Ch(t, 3) = ":" /\ two(4)) THEN bad
        ELSE IF n >= 8 /\ ~(Ch(t, 6) = ":" /\ two(7)) THEN bad
        ELSE IF n >= 10 /\ ~(Ch(t, 9) = "." /\ IsDigits(frac)
                              /\ (py311 \/ Len(frac) \in {3, 6})) THEN bad
        ELSE LET h  == val(1)
                 mi == IF n >= 5 THEN val(4) ELSE 0
                 sc == IF n >= 8 THEN val(7) ELSE 0
             IN  IF h > 23 \/ mi > 59 \/ sc > 59 THEN bad
                 ELSE <<TRUE, h, mi, sc, us>>

\* The UTC offset that ends a time string, as <<ok, aware, seconds>>: empty,
\* (+|-)HH:MM[:SS], and from 3.11 also 'Z' and (+|-)HH.
ParseOffset(z) ==
    IF z = "" THEN <<TRUE, FALSE, 0>>
    ELSE IF z = "Z" THEN <<py311, TRUE, 0>>
    ELSE LET c == ParseClock(From(z, 2))
             n == Len(z) - 1
         IN  IF ~c[1] \/ n > 8 \/ (n = 2 /\ ~py311) THEN <<FALSE, FALSE, 0>>
             ELSE <<TRUE, TRUE,
                    (IF Ch(z, 1) = "-" THEN -1 ELSE 1)
                        * (c[2] * 3600 + c[3] * 60 + c[4])>>

\* datetime.fromisoformat(s) on the extended format
\* YYYY-MM-DD[*HH[:MM[:SS[.f...]]][offset]]: the datetime, or None where
\* Python raises ValueError.
fromisoformat(s) ==
    LET n == Len(s)
    IN  IF n < 10 \/ n = 11 THEN None
        ELSE IF ~(IsDigits(SubSeq(s, 1, 4)) /\ Ch(s, 5) = "-"
                  /\ IsDigits(SubSeq(s, 6, 7)) /\ Ch(s, 8) = "-"
                  /\ IsDigits(SubSeq(s, 9, 10))) THEN None
        ELSE LET y  == ToInt(SubSeq(s, 1, 4))
                 mo == ToInt(SubSeq(s, 6, 7))
                 d  == ToInt(SubSeq(s, 9, 10))
             IN  IF y < 1 \/ mo < 1 \/ mo > 12 THEN None
                 ELSE IF d < 1 \/ d > DaysInMonth(y, mo) THEN None
                 ELSE IF n = 10 THEN DateTime(y, mo, d, 0, 0, 0, 0, FALSE, 0)
                 ELSE LET t  == From(s, 12)
                          zp == FirstIn(t, 1, {"+", "-", "Z"})
                          c  == ParseClock(IF zp = 0 THEN t ELSE Upto(t, zp - 1))
                          z  == ParseOffset(IF zp = 0 THEN "" ELSE From(t, zp))
                      IN  IF ~c[1] \/ ~z[1] THEN None
                          ELSE DateTime(y, mo, d, c[2], c[3], c[4], c[5], z[2], z[3])

MonthNames ==
    <<"January", "February", "March", "April", "May", "June", "July",
      "August", "September", "October", "November", "December">>

\* dt.strftime("%B %d, %Y %I:%M:%S %p"); %Y as glibc prints it, unpadded
strftime(dt) ==
    LET h12 == IF dt.hour % 12 = 0 THEN 12 ELSE dt.hour % 12
    IN  MonthNames[dt.month] \o " " \o Pad2(dt.day) \o ", " \o ToStr(dt.year)
        \o " " \o Pad2(h12) \o ":" \o Pad2(dt.minute) \o ":" \o Pad2(dt.second)
        \o " " \o (IF dt.hour < 12 THEN "AM" ELSE "PM")

\* format_date(iso_date): one trailing 'Z' is removed before parsing. The
\* removal rebinds the local iso_date, so what comes back when parsing
\* raises is the argument without that 'Z'.
format_date(iso_date) ==
    LET stripped == IF Len(iso_date) > 0 /\ Ch(iso_date, Len(iso_date)) = "Z"
                    THEN SubSeq(iso_date, 1, Len(iso_date) - 1)
                    ELSE iso_date
        dt == fromisoformat(stripped)
    IN  IF dt = None THEN stripped ELSE strftime(dt)

\* What dt1 < dt2 compares: naive datetimes by their fields, aware ones by
\* their UTC instant, as <<day, second of day, microsecond>>.
SortKey(dt) ==
    LET secs == dt.hour * 3600 + dt.minute * 60 + dt.second - dt.utcoffset
        day  == Ordinal(dt.year, dt.month, dt.day)
    IN  IF secs < 0 THEN <<day - 1, secs + 86400, dt.microsecond>>
        ELSE IF secs >= 86400 THEN <<day + 1, secs - 86400, dt.microsecond>>
        ELSE <<day, secs, dt.microsecond>>

\* dt1 < dt2 of two datetimes that are both naive or both aware
Before(dt1, dt2) ==
    LET a == SortKey(dt1)
        b == SortKey(dt2)
    IN  \/ a[1] < b[1]
        \/ (a[1] = b[1] /\ a[2] < b[2])
        \/ (a[1] = b[1] /\ a[2] = b[2] /\ a[3] < b[3])

(***************************************************************************)
(* filter_messages                                                          *)
(***************************************************************************)
\* StripPrefix splitting at the last ':' (rsplit) instead of the first
StripPrefixLast(sender) ==
    LET c == LastIndex(sender, ":", Len(sender))
    IN  IF c = 0 THEN sender ELSE From(sender, c + 1)

\* sender.split(":", 1)[1] when ":" is in sender, else sender
StripPrefix(sender) ==
    LET c == FirstIn(sender, 1, {":"})
    IN  IF c = 0 THEN sender ELSE From(sender, c + 1)

\* convo.get("id"), boxed
ConvoId(convo) == IF "id" \in DOMAIN convo THEN Str(convo.id) ELSE None

\* s.lower() on ASCII letters
RECURSIVE Lower(_)
Lower(s) ==
    IF s = "" THEN ""
    ELSE LET k == FirstIn("ABCDEFGHIJKLMNOPQRSTUVWXYZ", 1, {Head(s)})
         IN  (IF k = 0 THEN Head(s) ELSE Ch("abcdefghijklmnopqrstuvwxyz", k))
             \o Lower(Tail(s))

\* FirstWordMatches comparing without regard to case
FirstWordMatchesAnyCase(words, first_word_) ==
    Truthy(first_word_) /\ Lower(words[1]) = Lower(first_word_.val)

\* SkipsConversation keeping the conversations that have no id
SkipsOnlyOtherIds(convo, conversation_id_) ==
    /\ Truthy(conversation_id_)
    /\ "id" \in DOMAIN convo
    /\ convo.id # conversation_id_.val

\* line 71: first_word and words[0] == first_word
FirstWordMatches(words, first_word_) ==
    Truthy(first_word_) /\ words[1] = first_word_.val

\* line 46: conversation_id and convo.get("id") != conversation_id
SkipsConversation(convo, conversation_id_) ==
    Truthy(conversation_id_) /\ ConvoId(convo) # conversation_id_

\* The body of the inner loop for one message: the records it appends to
\* filtered (none or one). src is history: the position of the message in
\* the archive, <<conversation, message>>.
MessageRecords(message, src, username_, first_word_, search_method_) ==
    LET sender  == StripPrefix(Get(message, "from", ""))
        content == clean_content(Get(message, "content", ""))
        words   == split(strip(content))
    IN  IF words = <<>> THEN <<>>
        ELSE IF sender # username_ THEN <<>>
        ELSE LET iso_date == Get(message, "originalarrivaltime", "Unknown Date")
                 dt  == fromisoformat(RStripSet(iso_date, {"Z"}))
                 rec == [datetime |-> dt, date |-> format_date(iso_date),
                         content |-> content, src |-> src]
             IN  IF search_method_ = "first_word"
                 THEN (IF FirstWordMatches(words, first_word_)
                       THEN <<rec>> ELSE <<>>)
                 ELSE IF search_method_ = "review"
                 THEN (IF review_search(content) THEN <<rec>> ELSE <<>>)
                 ELSE <<>>

\* the inner loop over messages[mi-1:] of conversation ci
RECURSIVE MessagesFrom(_, _, _, _, _, _)
MessagesFrom(messages, ci, mi, username_, first_word_, search_method_) ==
    IF mi > Len(messages) THEN <<>>
    ELSE MessageRecords(messages[mi], <<ci, mi>>, username_, first_word_, search_method_)
         \o MessagesFrom(messages, ci, mi + 1, username_, first_word_, search_method_)

\* the outer loop over conversations[ci-1:]
RECURSIVE ConversationsFrom(_, _, _, _, _, _)
ConversationsFrom(conversations, ci, username_, first_word_, conversation_id_, search_method_) ==
    IF ci > Len(conversations) THEN <<>>
    ELSE (IF SkipsConversation(conversations[ci], conversation_id_)
          THEN <<>>
          ELSE MessagesFrom(Get(conversations[ci], "MessageList", <<>>), ci, 1,
                            username_, first_word_, search_method_))
         \o ConversationsFrom(conversations, ci + 1, username_, first_word_,
                              conversation_id_, search_method_)

\* the sort key of a record: x["datetime"] if x["datetime"] else datetime.min
KeyOf(rec) == IF rec.datetime # None THEN rec.datetime ELSE datetime_min

\* InsertByKey moving rec also before the elements whose key equals its own
RECURSIVE InsertBeforeEqual(_, _)
InsertBeforeEqual(sorted, rec) ==
    IF sorted = <<>> THEN <<rec>>
    ELSE IF ~Before(KeyOf(sorted[Len(sorted)]), KeyOf(rec))
    THEN InsertBeforeEqual(SubSeq(sorted, 1, Len(sorted) - 1), rec)
         \o <<sorted[Len(sorted)]>>
    ELSE sorted \o <<rec>>

\* one insertion of a stable sort: rec goes after every element whose key is
\* not greater than its own
RECURSIVE InsertByKey(_, _)
InsertByKey(sorted, rec) ==
    IF sorted = <<>> THEN <<rec>>
    ELSE IF Before(KeyOf(rec), KeyOf(sorted[Len(sorted)]))
    THEN InsertByKey(SubSeq(sorted, 1, Len(sorted) - 1), rec) \o <<sorted[Len(sorted)]>>
    ELSE sorted \o <<rec>>

RECURSIVE SortByKey(_)
SortByKey(recs) ==
    IF recs = <<>> THEN <<>>
    ELSE InsertByKey(SortByKey(SubSeq(recs, 1, Len(recs) - 1)), recs[Len(recs)])

\* Whether list.sort compares an offset-naive key with an offset-aware one,
\* which raises TypeError: any sort of two or more keys has to.
SortRaises(recs) ==
    \E i, j \in 1..Len(recs) : KeyOf(recs[i]).aware # KeyOf(recs[j]).aware

Returned(value) == [tag |-> "returned", value |-> value]

Raised(exc) == [tag |-> "raised", exc |-> exc]

filter_messages(data_, username_, first_word_, conversation_id_, search_method_) ==
    LET filtered == ConversationsFrom(Get(data_, "conversations", <<>>), 1, username_,
                                      first_word_, conversation_id_, search_method_)
    IN  IF SortRaises(filtered) THEN Raised("TypeError")
        ELSE Returned(SortByKey(filtered))

(***************************************************************************)
(* get_available_filename                                                   *)
(***************************************************************************)
\* os.path.splitext(p) as <<base, ext>>: the extension starts at the last dot
\* of the last path component, unless only dots precede it there
splitext(p) ==
    LET sep == LastIndex(p, "/", Len(p))
        dot == LastIndex(p, ".", Len(p))
        lead == FirstNotIn(p, sep + 1, {"."})
    IN  IF dot > sep /\ lead # 0 /\ lead < dot
        THEN <<Upto(p, dot - 1), From(p, dot)>>
        ELSE <<p, "">>

\* Numbered putting the counter after the extension
NumberedAfterExt(name, n) == name \o "_" \o ToStr(n)

\* f"{base}_{counter}{ext}"
Numbered(name, n) == splitext(name)[1] \o "_" \o ToStr(n) \o splitext(name)[2]

\* lines 96-100: return filename when it is free, else start counting at 1
NamerCheck ==
    /\ pc = "namer_entry"
    /\ IF filename \notin disk
       THEN /\ final_output_file' = filename
            /\ pc' = "doc_save"
            /\ UNCHANGED <<counter, new_filename>>
       ELSE /\ counter' = 1
            /\ new_filename' = Numbered(filename, 1)
            /\ pc' = "namer_loop"
            /\ UNCHANGED final_output_file
    /\ UNCHANGED <<py311, disk, archive_file, stdin, data, username, conversation_id,
                   search_method, first_word, filtered_messages, filename, doc,
                   saved, log, pieces, text, cleaned>>

\* lines 101-103: one turn of the while loop
NamerLoop ==
    /\ pc = "namer_loop"
    /\ new_filename \in disk
    /\ counter' = counter + 1
    /\ new_filename' = Numbered(filename, counter + 1)
    /\ UNCHANGED <<pc, py311, disk, archive_file, stdin, data, username,
                   conversation_id, search_method, first_word, filtered_messages,
                   filename, final_output_file, doc, saved, log, pieces, text,
                   cleaned>>

\* line 104: the loop ends and new_filename is returned
NamerReturn ==
    /\ pc = "namer_loop"
    /\ new_filename \notin disk
    /\ final_output_file' = new_filename
    /\ pc' = "doc_save"
    /\ UNCHANGED <<py311, disk, archive_file, stdin, data, username, conversation_id,
                   search_method, first_word, filtered_messages, filename, counter,
                   new_filename, doc, saved, log, pieces, text, cleaned>>

NextNamer == NamerCheck \/ NamerLoop \/ NamerReturn

(***************************************************************************)
(* save_to_word and main                                                    *)
(***************************************************************************)
\* the blocks save_to_word adds for messages[i-1:], numbered from i
RECURSIVE ReviewBlocks(_, _)
ReviewBlocks(messages, i) ==
    IF i > Len(messages) THEN <<>>
    ELSE << <<"heading2", "Review #" \o ToStr(i) \o " - " \o messages[i].date>>,
            <<"paragraph", "Message content:">>,
            <<"paragraph", messages[i].content>>,
            <<"paragraph", "----------------------------------------">> >>
         \o ReviewBlocks(messages, i + 1)

\* lines 130-134: load_conversation; any failure is reported and main returns
Load ==
    /\ pc = "load"
    /\ IF archive_file.state = "ok"
       THEN /\ data' = archive_file.json
            /\ log' = Append(log, "load")
            /\ pc' = "input_username"
       ELSE /\ log' = Append(log, "load_error")
            /\ pc' = "done"
            /\ UNCHANGED data
    /\ UNCHANGED <<py311, disk, archive_file, stdin, username, conversation_id,
                   search_method, first_word, filtered_messages, filename, counter,
                   new_filename, final_output_file, doc, saved, pieces, text, cleaned>>

\* line 136
InputUsername ==
    /\ pc = "input_username"
    /\ username' = strip(Head(stdin))
    /\ stdin' = Tail(stdin)
    /\ log' = Append(log, "prompt")
    /\ pc' = "input_conversation"
    /\ UNCHANGED <<py311, disk, archive_file, data, conversation_id, search_method,
                   first_word, filtered_messages, filename, counter, new_filename,
                   final_output_file, doc, saved, pieces, text, cleaned>>

\* lines 137-139
InputConversation ==
    /\ pc = "input_conversation"
    /\ conversation_id' = IF strip(Head(stdin)) = "" THEN None
                          ELSE Str(strip(Head(stdin)))
    /\ stdin' = Tail(stdin)
    /\ log' = Append(log, "prompt")
    /\ pc' = "input_method"
    /\ UNCHANGED <<py311, disk, archive_file, data, username, search_method,
                   first_word, filtered_messages, filename, counter, new_filename,
                   final_output_file, doc, saved, pieces, text, cleaned>>

\* lines 141-154
InputMethod ==
    /\ pc = "input_method"
    /\ stdin' = Tail(stdin)
    /\ LET method_choice == strip(Head(stdin))
       IN  IF method_choice = "1"
           THEN /\ search_method' = "first_word"
                /\ log' = Append(log, "prompt")
                /\ pc' = "input_word"
                /\ UNCHANGED first_word
           ELSE IF method_choice = "2"
           THEN /\ search_method' = "review"
                /\ first_word' = None
                /\ log' = Append(log, "prompt")
                /\ pc' = "filter"
           ELSE /\ log' = Append(log, "invalid_selection")
                /\ pc' = "done"
                /\ UNCHANGED <<search_method, first_word>>
    /\ UNCHANGED <<py311, disk, archive_file, data, username, conversation_id,
                   filtered_messages, filename, counter, new_filename,
                   final_output_file, doc, saved, pieces, text, cleaned>>

\* line 148
InputWord ==
    /\ pc = "input_word"
    /\ first_word' = Str(strip(Head(stdin)))
    /\ stdin' = Tail(stdin)
    /\ log' = Append(log, "prompt")
    /\ pc' = "filter"
    /\ UNCHANGED <<py311, disk, archive_file, data, username, conversation_id,
                   search_method, filtered_messages, filename, counter, new_filename,
                   final_output_file, doc, saved, pieces, text, cleaned>>

\* line 156: the call of filter_messages; an exception it raises is not
\* caught by main and ends the run
CallFilter ==
    /\ pc = "filter"
    /\ filtered_messages' = filter_messages(data, username, first_word,
                                            conversation_id, search_method)
    /\ log' = Append(log, "filter")
    /\ pc' = IF filtered_messages'.tag = "raised" THEN "crashed" ELSE "check_result"
    /\ UNCHANGED <<py311, disk, archive_file, stdin, data, username, conversation_id,
                   search_method, first_word, filename, counter, new_filename,
                   final_output_file, doc, saved, pieces, text, cleaned>>

\* lines 157-159
NoMatches ==
    /\ pc = "check_result"
    /\ filtered_messages.value = <<>>
    /\ log' = Append(log, "no_matches")
    /\ pc' = "done"
    /\ UNCHANGED <<py311, disk, archive_file, stdin, data, username, conversation_id,
                   search_method, first_word, filtered_messages, filename, counter,
                   new_filename, final_output_file, doc, saved, pieces, text, cleaned>>

\* SaveToWord without the test for an empty result at lines 157-159
SaveToWordUnchecked ==
    /\ pc = "check_result"
    /\ doc' = << <<"heading1", "Reviews by " \o username>> >>
              \o ReviewBlocks(filtered_messages.value, 1)
    /\ filename' = username \o "_messages.docx"
    /\ log' = log \o <<"render", "namer">>
    /\ pc' = "namer_entry"
    /\ UNCHANGED <<py311, disk, archive_file, stdin, data, username, conversation_id,
                   search_method, first_word, filtered_messages, counter,
                   new_filename, final_output_file, saved, pieces, text, cleaned>>

\* lines 161-162 and 113-124: save_to_word builds the document, then asks
\* get_available_filename for the name
SaveToWord ==
    /\ pc = "check_result"
    /\ filtered_messages.value # <<>>
    /\ doc' = << <<"heading1", "Reviews by " \o username>> >>
              \o ReviewBlocks(filtered_messages.value, 1)
    /\ filename' = username \o "_messages.docx"
    /\ log' = log \o <<"render", "namer">>
    /\ pc' = "namer_entry"
    /\ UNCHANGED <<py311, disk, archive_file, stdin, data, username, conversation_id,
                   search_method, first_word, filtered_messages, counter,
                   new_filename, final_output_file, saved, pieces, text, cleaned>>

\* line 125: doc.save(final_output_file)
DocSave ==
    /\ pc = "doc_save"
    /\ disk' = disk \cup {final_output_file}
    /\ saved' = Append(saved, <<final_output_file, doc>>)
    /\ log' = Append(log, "save")
    /\ pc' = "done"
    /\ UNCHANGED <<py311, archive_file, stdin, data, username, conversation_id,
                   search_method, first_word, filtered_messages, filename, counter,
                   new_filename, final_output_file, doc, pieces, text, cleaned>>

\* clean_content called on text
CallClean ==
    /\ pc = "clean"
    /\ cleaned' = clean_content(text)
    /\ pc' = "cleaned"
    /\ UNCHANGED <<py311, disk, archive_file, stdin, data, username, conversation_id,
                   search_method, first_word, filtered_messages, filename, counter,
                   new_filename, final_output_file, doc, saved, log, pieces, text>>

(***************************************************************************)
(* Bounds and input pools                                                   *)
(***************************************************************************)
\* messages per conversation
MaxMsgs == 3

\* conversations per archive
MaxConvs == 2

\* fragments a generated content string is built from
MaxPieces == 3

\* highest numbered sibling of a file name that may already exist
MaxSuffix == 3

\* all sequences over S of length at most n
SeqsUpTo(S, n) == UNION {[1..k -> S] : k \in 0..n}

\* the fragments joined in order
RECURSIVE Join(_)
Join(ps) == IF ps = <<>> THEN "" ELSE Head(ps) \o Join(Tail(ps))

Msg(f, c, t) == [from |-> f, content |-> c, originalarrivaltime |-> t]

Conv(id, msgs) == [id |-> id, MessageList |-> msgs]

Archive(convs) == [conversations |-> convs]

Unset == [tag |-> "unset"]

\* the variables of main and save_to_word before main has run
IdleMain ==
    /\ disk = {}
    /\ archive_file = [state |-> "missing"]
    /\ stdin = <<>>
    /\ doc = <<>>
    /\ saved = <<>>
    /\ log = <<>>

\* the variables of filter_messages' caller before the call
IdleFilter ==
    /\ data = Archive(<<>>)
    /\ username = ""
    /\ conversation_id = None
    /\ search_method = ""
    /\ first_word = None
    /\ filtered_messages = Unset

\* the locals of get_available_filename before the call
IdleNamer ==
    /\ filename = ""
    /\ counter = 0
    /\ new_filename = ""
    /\ final_output_file = ""

\* the variables of clean_content's caller before the call
IdleClean ==
    /\ pieces = <<>>
    /\ text = ""
    /\ cleaned = ""

\* a call filter_messages(data, username, first_word, conversation_id,
\* search_method) about to be made, with its arguments drawn from the sets
InitFilter(archives, usernames, words, conversation_ids, methods) ==
    /\ pc = "filter"
    /\ py311 \in BOOLEAN
    /\ data \in archives
    /\ username \in usernames
    /\ first_word \in words
    /\ conversation_id \in conversation_ids
    /\ search_method \in methods
    /\ filtered_messages = Unset
    /\ IdleMain
    /\ IdleNamer
    /\ IdleClean

\* a timestamp every interpreter parses, offset-naive
T0 == "2025-03-19T21:15:44"

\* archives of one conversation "c1" whose messages are drawn from msgs
OneConversation(msgs) == {Archive(<<Conv("c1", ms)>>) : ms \in SeqsUpTo(msgs, MaxMsgs)}

\* archives of one conversation holding one message
OneMessage(msgs) == {Archive(<<Conv("c1", <<m>>)>>) : m \in msgs}

(***************************************************************************)
(* SpecSender: filter_messages over senders and target users               *)
(***************************************************************************)
Senders == {"8:alice", "alice", "8:bob", "8:live:alice", ":alice"}

SenderMsgs ==
    {Msg(f, "Hello 9/10", T0) : f \in Senders}
        \cup {[content |-> "Hello 9/10", originalarrivaltime |-> T0]}

InitSender ==
    InitFilter(OneConversation(SenderMsgs), {"alice", "live:alice", ""},
               {Str("Hello")}, {None}, {"review", "first_word"})

SpecSender == InitSender /\ [][CallFilter]_vars

(***************************************************************************)
(* SpecReview: filter_messages in review mode over message contents        *)
(***************************************************************************)
ReviewPieces == {"9", ".5", ".", "/10", "0", " ", "a", "_"}

ReviewContents == {Join(ps) : ps \in SeqsUpTo(ReviewPieces, MaxPieces)}

ReviewMsgs ==
    {Msg("8:alice", "Great game 9/10 would play again", T0),
     Msg("8:bob", "Not interested", T0),
     Msg("8:alice", "Tom &amp; Jerry 8.5/10", T0),
     Msg("8:alice", "9/100", T0)}

InitReview ==
    InitFilter(OneMessage({Msg(f, c, T0) : f \in {"8:alice", "8:bob"},
                                            c \in ReviewContents})
                   \cup OneConversation(ReviewMsgs),
               {"alice"}, {None}, {None}, {"review"})

SpecReview == InitReview /\ [][CallFilter]_vars

(***************************************************************************)
(* SpecFirstWord: filter_messages in first_word mode                        *)
(***************************************************************************)
WordPieces == {"Hello", "hello", " ", "\t", "there", "<e_m a=\"b\"/>"}

WordContents == {Join(ps) : ps \in SeqsUpTo(WordPieces, MaxPieces)}

WordMsgs ==
    {Msg("8:alice", "Hello there", T0), Msg("8:alice", "hello there", T0),
     Msg("8:bob", "Hello there", T0), [from |-> "8:alice", originalarrivaltime |-> T0]}

InitFirstWord ==
    InitFilter(OneMessage({Msg("8:alice", c, T0) : c \in WordContents})
                   \cup OneConversation(WordMsgs),
               {"alice"}, {None, Str(""), Str("Hello"), Str("hello")}, {None},
               {"first_word"})

SpecFirstWord == InitFirstWord /\ [][CallFilter]_vars

(***************************************************************************)
(* SpecConv: filter_messages over conversations and the conversation id    *)
(***************************************************************************)
ConvMsgs == {Msg("8:alice", "9/10", T0)}

Conversations ==
    {Conv(id, ms) : id \in {"c1", "c2"}, ms \in SeqsUpTo(ConvMsgs, MaxMsgs)}
        \cup {[MessageList |-> <<m>>] : m \in ConvMsgs}
        \cup {[id |-> "c1"]}

\* a JSON object with no keys
EmptyObject == [k \in {} |-> ""]

InitConv ==
    InitFilter({Archive(cs) : cs \in SeqsUpTo(Conversations, MaxConvs)}
                   \cup {EmptyObject},
               {"alice"}, {None}, {None, Str(""), Str("c1"), Str("c2")}, {"review"})

SpecConv == InitConv /\ [][CallFilter]_vars

(***************************************************************************)
(* SpecOrder: filter_messages over timestamps                               *)
(***************************************************************************)
Times ==
    {"2025-03-19T21:15:44.097Z", "2025-03-19T21:15:44.097", "2024-12-01T08:00:00",
     "0001-01-01T00:00:00", "2025-03-19T21:15:44ZZ", "2025-03-19T23:15:44+02:00",
     "2025-03-19T21:15:44+00:00", "garbageZ"}

TimeMsgs ==
    {Msg("8:alice", "9/10", t) : t \in Times}
        \cup {[from |-> "8:alice", content |-> "9/10"]}

InitOrder ==
    InitFilter(OneConversation(TimeMsgs), {"alice"}, {None}, {None}, {"review"})

SpecOrder == InitOrder /\ [][CallFilter]_vars

(***************************************************************************)
(* SpecClean: clean_content over marked-up text                             *)
(***************************************************************************)
SelfClosingTag == "<e_m a=\"b\"/>"

PairedSpan == "<e_m x=\"y\">hidden</e_m>"

PlainPieces == {"Hi ", "there"}

CleanPieces == PlainPieces \cup {SelfClosingTag, PairedSpan}

InitClean ==
    /\ pc = "clean"
    /\ py311 \in BOOLEAN
    /\ pieces \in SeqsUpTo(CleanPieces, MaxPieces)
    /\ text = Join(pieces)
    /\ cleaned = ""
    /\ IdleMain
    /\ IdleFilter
    /\ IdleNamer

SpecClean == InitClean /\ [][CallClean]_vars

(***************************************************************************)
(* SpecNamer: get_available_filename over directories                       *)
(***************************************************************************)
\* desired names as <<base, extension>>
NamerBases ==
    {<<"alice_messages", ".docx">>, <<"notes", "">>, <<".hidden", "">>,
     <<"a.tar", ".gz">>}

\* the desired name b and its numbered siblings up to MaxSuffix
Siblings(b) ==
    {b[1] \o b[2]} \cup {b[1] \o "_" \o ToStr(k) \o b[2] : k \in 1..MaxSuffix}

InitNamer ==
    /\ pc = "namer_entry"
    /\ py311 \in BOOLEAN
    /\ pieces \in NamerBases
    /\ filename = pieces[1] \o pieces[2]
    /\ disk \in SUBSET (Siblings(pieces) \cup {"bob_messages.docx"})
    /\ counter = 0
    /\ new_filename = ""
    /\ final_output_file = ""
    /\ archive_file = [state |-> "missing"]
    /\ stdin = <<>>
    /\ doc = <<>>
    /\ saved = <<>>
    /\ log = <<>>
    /\ text = ""
    /\ cleaned = ""
    /\ IdleFilter

\* the while loop is the only thing running: it keeps taking steps
SpecNamer == InitNamer /\ [][NextNamer]_vars /\ WF_vars(NextNamer)

(***************************************************************************)
(* Spec: a run of main                                                      *)
(***************************************************************************)
MainMsgs ==
    {Msg("8:alice", "Great game 9/10 would play again", "2025-03-19T21:15:44.097Z"),
     Msg("8:alice", "Hello there 7/10", "2025-03-19T23:15:44+02:00"),
     Msg("8:bob", "Not interested", T0)}

ArchiveFiles ==
    {[state |-> "missing"], [state |-> "invalid_json"]}
        \cup {[state |-> "ok", json |-> a] : a \in OneConversation(MainMsgs)}

\* what the user types at the four prompts
Answers ==
    {<<u, c, m, w>> : u \in {"alice", " alice\t", "bob"}, c \in {"", "c1"},
                      m \in {"1", " 2 ", "x"}, w \in {"Hello", ""}}

Init ==
    /\ pc = "load"
    /\ py311 \in BOOLEAN
    /\ archive_file \in ArchiveFiles
    /\ stdin \in Answers
    /\ disk \in {{}, {"alice_messages.docx"},
                 {"alice_messages.docx", "alice_messages_1.docx"}}
    /\ doc = <<>>
    /\ saved = <<>>
    /\ log = <<>>
    /\ IdleFilter
    /\ IdleNamer
    /\ IdleClean

Next ==
    \/ Load
    \/ InputUsername
    \/ InputConversation
    \/ InputMethod
    \/ InputWord
    \/ CallFilter
    \/ NoMatches
    \/ SaveToWord
    \/ NamerCheck
    \/ NamerLoop
    \/ NamerReturn
    \/ DocSave

Spec == Init /\ [][Next]_vars

(***************************************************************************)
(* What the claims are stated about                                         *)
(***************************************************************************)
FilterReturned == filtered_messages.tag = "returned"

\* the message a record was made from
MessageAt(src) == data.conversations[src[1]].MessageList[src[2]]

\* archive order of two message positions
SrcBefore(a, b) == a[1] < b[1] \/ (a[1] = b[1] /\ a[2] < b[2])

\* the instant a record sorts by: a null instant stands for datetime.min
Instant(rec) == IF rec.datetime = None THEN datetime_min ELSE rec.datetime

SameInstant(r1, r2) ==
    ~Before(Instant(r1), Instant(r2)) /\ ~Before(Instant(r2), Instant(r1))

\* the records in ascending order of instant, equal instants in archive order,
\* and exactly the records the loops emitted
SortedStable(v) ==
    LET emitted == ConversationsFrom(Get(data, "conversations", <<>>), 1, username,
                                     first_word, conversation_id, search_method)
    IN  /\ Len(v) = Len(emitted)
        /\ \A k \in 1..Len(emitted) : \E i \in 1..Len(v) : v[i] = emitted[k]
        /\ \A i, j \in 1..Len(v) :
              i < j => /\ ~Before(Instant(v[j]), Instant(v[i]))
                       /\ SameInstant(v[i], v[j]) => SrcBefore(v[i].src, v[j].src)

\* C1 as stated: the result is sorted ascending by instant, stably, and every
\* record with a null instant precedes every record with a non-null instant.
C1_NullBeforeEveryInstant ==
    FilterReturned =>
        LET v == filtered_messages.value
        IN  /\ SortedStable(v)
            /\ \A i, j \in 1..Len(v) :
                  (v[i].datetime = None /\ v[j].datetime # None) => i < j

\* C1 (amended): the result is sorted ascending by instant (a null instant
\* counting as datetime.min), records of equal instant keep archive order, and
\* every null-instant record precedes every record whose instant is later than
\* datetime.min; a record whose instant is datetime.min ties with them.
C1_SortedNullAsMin ==
    FilterReturned =>
        LET v == filtered_messages.value
        IN  /\ SortedStable(v)
            /\ \A i, j \in 1..Len(v) :
                  (/\ v[i].datetime = None
                   /\ v[j].datetime # None
                   /\ Before(datetime_min, v[j].datetime)) => i < j

\* emitted as [null, T2, T1] and returned as [null, T1, T2]
C1_Witness ==
    /\ FilterReturned
    /\ Len(filtered_messages.value) = 3
    /\ filtered_messages.value[1].datetime = None
    /\ filtered_messages.value[1].src = <<1, 1>>
    /\ filtered_messages.value[2].src = <<1, 3>>
    /\ filtered_messages.value[3].src = <<1, 2>>
    /\ filtered_messages.value[2].datetime # None
    /\ filtered_messages.value[3].datetime # None
    /\ Before(filtered_messages.value[2].datetime, filtered_messages.value[3].datetime)

\* C2: filter_messages never raises, whatever the timestamps of the archive.
C2_NeverRaises == filtered_messages.tag # "raised"

\* iso_date without exactly one trailing 'Z'
WithoutOneZ(raw) ==
    IF Len(raw) > 0 /\ Ch(raw, Len(raw)) = "Z" THEN SubSeq(raw, 1, Len(raw) - 1)
    ELSE raw

\* C3: in every emitted record the display value and the instant agree with
\* the raw timestamp less exactly one trailing 'Z': when that is a valid ISO
\* date-time the record holds its 12-hour display string and a non-null
\* instant, otherwise the original raw string and a null instant.
C3_DisplayAndInstantAgree ==
    FilterReturned =>
        \A i \in 1..Len(filtered_messages.value) :
            LET rec == filtered_messages.value[i]
                raw == Get(MessageAt(rec.src), "originalarrivaltime", "Unknown Date")
                dt  == fromisoformat(WithoutOneZ(raw))
            IN  IF dt # None
                THEN rec.date = strftime(dt) /\ rec.datetime # None
                ELSE rec.date = raw /\ rec.datetime = None

\* the part of a sender after its first ':', or all of it when it has none
ReducedSender(f) ==
    IF \E k \in 1..Len(f) : Ch(f, k) = ":"
    THEN LET k == CHOOSE k \in 1..Len(f) :
                      Ch(f, k) = ":" /\ \A j \in 1..(k - 1) : Ch(f, j) # ":"
         IN  From(f, k + 1)
    ELSE f

\* C7: every returned record comes from a message whose sender, reduced to
\* the part after its first ':', equals the target sender exactly.
C7_SenderAfterFirstColon ==
    FilterReturned =>
        \A i \in 1..Len(filtered_messages.value) :
            ReducedSender(Get(MessageAt(filtered_messages.value[i].src), "from", ""))
                = username

\* a record made from a message of "8:live:alice" for the target "live:alice"
C7_Witness ==
    /\ FilterReturned
    /\ username = "live:alice"
    /\ \E i \in 1..Len(filtered_messages.value) :
          MessageAt(filtered_messages.value[i].src).from = "8:live:alice"

\* positions of the messages of the archive
Positions ==
    LET convs == Get(data, "conversations", <<>>)
    IN  UNION {{<<ci, mi>> : mi \in 1..Len(Get(convs[ci], "MessageList", <<>>))} :
                  ci \in 1..Len(convs)}

\* whether the result holds a record made from the message at src
Selected(src) ==
    \E i \in 1..Len(filtered_messages.value) : filtered_messages.value[i].src = src

\* the normalized content of the message at src
ContentAt(src) == clean_content(Get(MessageAt(src), "content", ""))

\* whether the message at src passes the sender check
SenderPasses(src) == StripPrefix(Get(MessageAt(src), "from", "")) = username

\* some character of s is not white space
NonEmpty(s) == \E k \in 1..Len(s) : Ch(s, k) \notin Whitespace

AllDigits(s, a, b) == a <= b /\ \A k \in a..b : Ch(s, k) \in Digits

\* s holds digits, optionally '.' and digits, then "/10", with no word
\* character right before the first digit nor right after the "10"
HasRatingToken(s) ==
    \E a \in 1..Len(s) : \E b \in a..Len(s) :
        /\ AllDigits(s, a, b)
        /\ (a = 1 \/ Ch(s, a - 1) \notin WordChars)
        /\ \E e \in b..Len(s) :
              /\ \/ e = b
                 \/ (e >= b + 2 /\ Ch(s, b + 1) = "." /\ AllDigits(s, b + 2, e))
              /\ StartsAt(s, e + 1, "/10")
              /\ (e + 3 = Len(s) \/ Ch(s, e + 4) \notin WordChars)

TheScenario ==
    Archive(<<Conv("c1", <<Msg("8:alice", "Great game 9/10 would play again", T0),
                           Msg("8:bob", "Not interested", T0)>>)>>)

\* C8: in review mode a message that passes the sender check and has
\* non-empty normalized content is selected exactly when that content holds a
\* rating token; the scenario of alice's "Great game 9/10 would play again"
\* and bob's "Not interested" yields exactly alice's record.
C8_ReviewSelectsRatingTokens ==
    (FilterReturned /\ search_method = "review") =>
        /\ \A src \in Positions :
              (SenderPasses(src) /\ NonEmpty(ContentAt(src)))
                  => (Selected(src) <=> HasRatingToken(ContentAt(src)))
        /\ (data = TheScenario /\ username = "alice") =>
              /\ Len(filtered_messages.value) = 1
              /\ filtered_messages.value[1].content = "Great game 9/10 would play again"

\* the scenario has been filtered
C8_Witness ==
    /\ FilterReturned
    /\ search_method = "review"
    /\ data = TheScenario
    /\ username = "alice"
    /\ Len(filtered_messages.value) = 1

\* the first maximal run of non-white-space characters of a non-empty s
FirstToken(s) ==
    LET b == CHOOSE b \in 1..Len(s) :
                 Ch(s, b) \notin Whitespace /\ \A k \in 1..(b - 1) : Ch(s, k) \in Whitespace
        e == CHOOSE e \in b..Len(s) :
                 /\ \A k \in b..e : Ch(s, k) \notin Whitespace
                 /\ (e = Len(s) \/ Ch(s, e + 1) \in Whitespace)
    IN  SubSeq(s, b, e)

\* C9: in first_word mode with word W a message that passes the sender check
\* is selected exactly when the first white-space-delimited token of its
\* normalized content is W, letter case included: with W = "Hello" and sender
\* "8:alice", "Hello there" is selected and "hello there" is not.
C9_FirstWordExact ==
    (FilterReturned /\ search_method = "first_word" /\ first_word # None) =>
        \A src \in Positions :
            SenderPasses(src) =>
                /\ Selected(src) <=> (/\ NonEmpty(ContentAt(src))
                                      /\ FirstToken(ContentAt(src)) = first_word.val)
                /\ (first_word.val = "Hello"
                    /\ MessageAt(src) = Msg("8:alice", "Hello there", T0))
                       => Selected(src)
                /\ (first_word.val = "Hello"
                    /\ MessageAt(src) = Msg("8:alice", "hello there", T0))
                       => ~Selected(src)

\* "Hello there" was selected and "hello there" was not
C9_Witness ==
    /\ FilterReturned
    /\ first_word = Str("Hello")
    /\ \E a, b \in Positions :
          /\ MessageAt(a) = Msg("8:alice", "Hello there", T0)
          /\ MessageAt(b) = Msg("8:alice", "hello there", T0)
          /\ Selected(a)
          /\ ~Selected(b)

\* C10: with a conversation identifier supplied (a non-empty one) every
\* returned record comes from a conversation whose id equals it; with none
\* supplied the messages of every conversation are processed, so every
\* message that meets the sender and content tests has its record.
C10_ConversationFilter ==
    FilterReturned =>
        /\ Truthy(conversation_id) =>
              \A i \in 1..Len(filtered_messages.value) :
                  LET convo == data.conversations[filtered_messages.value[i].src[1]]
                  IN  "id" \in DOMAIN convo /\ convo.id = conversation_id.val
        /\ ~Truthy(conversation_id) =>
              \A src \in Positions :
                  (/\ SenderPasses(src)
                   /\ search_method = "review"
                   /\ HasRatingToken(ContentAt(src))) => Selected(src)

\* two conversations hold a matching message each, one without an id, and
\* only the one of the supplied id contributed
C10_Witness ==
    /\ FilterReturned
    /\ conversation_id = Str("c1")
    /\ "conversations" \in DOMAIN data
    /\ Len(data.conversations) = 2
    /\ "id" \notin DOMAIN data.conversations[1]
    /\ <<1, 1>> \in Positions
    /\ <<2, 1>> \in Positions
    /\ ~Selected(<<1, 1>>)
    /\ Selected(<<2, 1>>)

\* C4: when the text holds a self-closing <e_m .../> tag, clean_content
\* removes only the markup and leaves the text outside it untouched, also when
\* a paired <e_m ...>...</e_m> span follows.
C4_TextOutsideTagKept ==
    (pc = "cleaned" /\ \E k \in 1..Len(pieces) : pieces[k] = SelfClosingTag) =>
        cleaned = Join(SelectSeq(pieces, LAMBDA q : q \in PlainPieces))

\* the name get_available_filename has to return for the desired name
\* base + ext in the directory: the first free one of base+ext, base_1+ext, ...
FirstFree(base, ext) ==
    IF base \o ext \notin disk THEN base \o ext
    ELSE LET free(k) == base \o "_" \o ToStr(k) \o ext \notin disk
             k == CHOOSE k \in 1..(Cardinality(disk) + 1) :
                      free(k) /\ \A j \in 1..(k - 1) : ~free(j)
         IN  base \o "_" \o ToStr(k) \o ext

\* C5: get_available_filename terminates; it returns the desired name when no
\* file has it, else base_k + extension for the least k >= 1 that is free; the
\* name returned is not that of an existing file, and the directory is left
\* as it was.
C5_FirstFreeName ==
    /\ [](pc = "doc_save" => /\ final_output_file = FirstFree(pieces[1], pieces[2])
                             /\ final_output_file \notin disk)
    /\ [][disk' = disk]_vars
    /\ <>(pc = "doc_save")

\* the desired name and its first sibling exist and the second one is returned
C5_Witness ==
    /\ pc = "doc_save"
    /\ counter = 2
    /\ filename = "alice_messages.docx"
    /\ final_output_file = "alice_messages_2.docx"

InLog(step) == \E k \in 1..Len(log) : log[k] = step

\* C6: a document is written only after the archive loaded and the filter
\* returned at least one record; a load failure ends the run at once, with no
\* prompt, filter, naming or render step, and an empty result ends it without
\* the namer or the renderer being called.
C6_DocumentOnlyForMatches ==
    /\ (saved # <<>> \/ InLog("save")) =>
          /\ archive_file.state = "ok"
          /\ FilterReturned
          /\ filtered_messages.value # <<>>
    /\ (archive_file.state # "ok" /\ pc # "load") =>
          pc = "done" /\ log = <<"load_error">> /\ saved = <<>>
    /\ (FilterReturned /\ filtered_messages.value = <<>> /\ pc # "check_result") =>
          /\ pc = "done"
          /\ saved = <<>>
          /\ ~InLog("namer") /\ ~InLog("render") /\ ~InLog("save")

\* a run that wrote its document under a numbered name
C6_Witness ==
    /\ pc = "done"
    /\ Len(saved) = 1
    /\ saved[1][1] = "alice_messages_1.docx"
    /\ filtered_messages.value # <<>>

====
